---- MODULE Spec2Model ----
(***************************************************************************)
(* MCPFactory (src/src/mcp_server/factory.py): the construction of the MCP *)
(* server.  One run of MCPFactory.build() is modelled step by step,        *)
(* followed by the caller's cleanup().  Python values are records carrying *)
(* their type, so that truthiness tests and attribute look-ups behave as   *)
(* the interpreter's do.                                                   *)
(***************************************************************************)
EXTENDS Integers, Sequences, FiniteSets, TLC

VARIABLES
    config,          \* self.config: name and tool_mappings_file
    mappings_file,   \* the file system: what opening/reading the mappings file gives
    tool_mappings,   \* self.tool_mappings
    openapi_spec,    \* self.openapi_spec
    http_routes,     \* self.http_routes
    base_url,        \* self.base_url
    api_client,      \* self.api_client
    route_maps,      \* the local route_maps of _create_mcp_server, once built
    mcp_server,      \* the local mcp_server of build
    pc,              \* position of build(): the step about to run
    exc,             \* the exception in flight inside build, or the one that left it
    result,          \* what build returned
    started,         \* the steps of build begun so far, in order
    completed,       \* the steps of build that returned normally, in order
    propagated,      \* the exception that left build(), once it has
    aclose_calls,    \* number of calls of api_client.aclose()
    transforms       \* number of calls of ToolTransformer.transform_tools

vars == <<config, mappings_file, tool_mappings, openapi_spec, http_routes, base_url,
          api_client, route_maps, mcp_server, pc, exc, result, started, completed,
          propagated, aclose_calls, transforms>>

-----------------------------------------------------------------------------
(* Bounds of the model *)

MaxRoutes == 2

Methods == {"GET", "POST"}
Paths == {"/a", "/b"}
OpIdNames == {"op1", "op2"}

-----------------------------------------------------------------------------
(* Python values *)

None == [type |-> "NoneType"]
Str(s) == [type |-> "str", v |-> s]
PyList(items) == [type |-> "list", items |-> items]
PyDict(d) == [type |-> "dict", d |-> d]
PyInt(n) == [type |-> "int", v |-> n]
EmptyDict == PyDict([k \in {} |-> None])

\* bool(v), as used by "if not x" / "if x"
Truthy(v) ==
    CASE v.type = "NoneType" -> FALSE
      [] v.type = "str" -> v.v # ""
      [] v.type = "list" -> Len(v.items) > 0
      [] v.type = "dict" -> DOMAIN v.d # {}
      [] v.type = "int" -> v.v # 0
      [] OTHER -> TRUE

\* An exception: class is "Exception" for instances of Exception, "BaseException"
\* for those outside that hierarchy (asyncio.CancelledError, KeyboardInterrupt).
Exc(cls, name, step) == [cls |-> cls, name |-> name, step |-> step]

-----------------------------------------------------------------------------
(* The inputs: configuration, mappings file, OpenAPI document *)

ConfigNames == {"datainclusion", "other"}
MappingsPaths == {None, Str(""), Str("tool_mappings.json")}

\* JSON objects whose keys are operation ids and whose values are custom tool names
MappingDicts ==
    {PyDict([k \in K |-> Str("tool_" \o k)]) : K \in SUBSET OpIdNames}

\* what json.load can return for a valid JSON document
JSONValues ==
    MappingDicts \cup {PyList(<<Str("op1")>>), Str("op1"), None}

\* what open() + json.load() meet on the file system
FileStates ==
    {[kind |-> "missing"], [kind |-> "unreadable"], [kind |-> "invalid_json"]}
        \cup {[kind |-> "json", value |-> v] : v \in JSONValues}

OperationIds == {None} \cup {Str(o) : o \in OpIdNames}
Routes == [method : Methods, path : Paths, operation_id : OperationIds]

\* an OpenAPI document has one operation per (path, method)
DistinctOperations(rs) ==
    \A i, j \in 1..Len(rs) :
        (rs[i].method = rs[j].method /\ rs[i].path = rs[j].path) => i = j

RouteLists ==
    {rs \in UNION {[1..n -> Routes] : n \in 0..MaxRoutes} : DistinctOperations(rs)}

ServerUrls == {Str(""), Str("https://api.example")}

\* the "servers" entry of the document
ServersValues ==
    {PyList(<<>>), PyDict([x |-> None]), PyList(<<PyInt(1)>>),
     PyList(<<PyDict([description |-> Str("d")])>>)}
        \cup {PyList(<<PyDict([url |-> u])>>) : u \in ServerUrls}

OpenAPISpecs ==
    {EmptyDict, PyDict([openapi |-> Str("3.0.0")])}
        \cup {PyDict([openapi |-> Str("3.0.0"), servers |-> s]) : s \in ServersValues}

-----------------------------------------------------------------------------
(* _load_tool_mappings *)

\* open(...) and json.load(f): the value read, or the exception they raise.
\* "unreadable" stands for the failures of open/read other than a missing file
\* (PermissionError, IsADirectoryError, UnicodeDecodeError); "invalid_json" for
\* text that json.load rejects with JSONDecodeError.
OpenAndParse(file) ==
    CASE file.kind = "missing" -> [ok |-> FALSE, err |-> "FileNotFoundError"]
      [] file.kind = "unreadable" -> [ok |-> FALSE, err |-> "PermissionError"]
      [] file.kind = "invalid_json" -> [ok |-> FALSE, err |-> "JSONDecodeError"]
      [] file.kind = "json" -> [ok |-> TRUE, value |-> file.value]

LoadCatchesOnlyMissing == {"FileNotFoundError"}

\* the except clauses of _load_tool_mappings
LoadCatches == {"FileNotFoundError", "JSONDecodeError"}

\* _load_tool_mappings: [ok, value] on return, [ok, err] when it raises
LoadToolMappingsCall(cfg, file) ==
    IF ~Truthy(cfg.tool_mappings_file)
    THEN [ok |-> TRUE, value |-> EmptyDict]
    ELSE LET r == OpenAndParse(file) IN
         IF r.ok THEN [ok |-> TRUE, value |-> r.value]
         ELSE IF r.err \in LoadCatches THEN [ok |-> TRUE, value |-> EmptyDict]
         ELSE [ok |-> FALSE, err |-> r.err]

-----------------------------------------------------------------------------
(* _determine_base_url *)

DefaultBaseUrl == Str("http://localhost:8000")

\* self.openapi_spec.get("servers", [])
GetServers(spec) ==
    IF "servers" \in DOMAIN spec.d THEN spec.d.servers ELSE PyList(<<>>)

\* "url" in servers[0] raises TypeError when servers[0] is not a container
ServersRaises(servers) ==
    /\ Truthy(servers)
    /\ servers.type = "list"
    /\ Len(servers.items) > 0
    /\ servers.items[1].type \notin {"dict", "list", "str"}

ServersHaveUrl(servers) ==
    /\ Truthy(servers)
    /\ servers.type = "list"
    /\ Len(servers.items) > 0
    /\ servers.items[1].type = "dict"
    /\ "url" \in DOMAIN servers.items[1].d

DetermineBaseUrlCall(spec) ==
    IF ~Truthy(spec) THEN [ok |-> FALSE, err |-> "ValueError"]
    ELSE LET servers == GetServers(spec) IN
         IF ServersRaises(servers) THEN [ok |-> FALSE, err |-> "TypeError"]
         ELSE IF ServersHaveUrl(servers)
              THEN [ok |-> TRUE, value |-> servers.items[1].d.url]
              ELSE [ok |-> TRUE, value |-> DefaultBaseUrl]

-----------------------------------------------------------------------------
(* _create_mcp_server: the route maps *)

ToolRouteMap(route) ==
    [methods |-> <<route.method>>,
     pattern |-> "^" \o route.path \o "$",
     mcp_type |-> "TOOL"]

\* RouteMap(mcp_type=MCPType.EXCLUDE): the catch-all
ExcludeRouteMap ==
    [methods |-> <<"*">>, pattern |-> ".*", mcp_type |-> "EXCLUDE"]

\* set(self.tool_mappings.keys())
AllowedOpIds(mappings) == {Str(k) : k \in DOMAIN mappings.d}

RouteSelectedAlways(route, allowed) == TRUE

\* if route.operation_id in allowed_op_ids
RouteSelected(route, allowed) == route.operation_id \in allowed

RECURSIVE ToolRouteMaps(_, _, _)
\* the for loop over self.http_routes, appending to route_maps
ToolRouteMaps(routes, allowed, acc) ==
    IF routes = <<>> THEN acc
    ELSE ToolRouteMaps(Tail(routes), allowed,
                       IF RouteSelected(Head(routes), allowed)
                       THEN Append(acc, ToolRouteMap(Head(routes)))
                       ELSE acc)

BuildRouteMapsExcludeFirst(name, mappings, routes) ==
    IF name = "datainclusion"
    THEN <<ExcludeRouteMap>> \o ToolRouteMaps(routes, AllowedOpIds(mappings), <<>>)
    ELSE <<>>

\* route_maps as built by _create_mcp_server
BuildRouteMaps(name, mappings, routes) ==
    IF name = "datainclusion"
    THEN Append(ToolRouteMaps(routes, AllowedOpIds(mappings), <<>>), ExcludeRouteMap)
    ELSE <<>>

\* self.tool_mappings.keys() raises AttributeError on a value that is no dict
KeysRaises(name, mappings) == name = "datainclusion" /\ mappings.type # "dict"

-----------------------------------------------------------------------------
(* build *)

BuildSteps ==
    <<"load_tool_mappings", "load_openapi_spec", "determine_base_url",
      "create_api_client", "create_mcp_server", "transform_tools">>

StepIndex(step) == CHOOSE i \in 1..Len(BuildSteps) : BuildSteps[i] = step

StepAfterSkipsClient(step) ==
    IF step = "determine_base_url" THEN "create_mcp_server"
    ELSE IF step = "transform_tools" THEN "returned"
    ELSE BuildSteps[StepIndex(step) + 1]

\* the statement of build that follows a step that returned normally
StepAfter(step) ==
    IF step = "transform_tools" THEN "returned"
    ELSE BuildSteps[StepIndex(step) + 1]

\* what calls into the libraries can do: return, fail, or (at an await) be cancelled
SyncOutcomes == {"ok", "Exception"}
AwaitOutcomes == {"ok", "Exception", "BaseException"}

OutcomeExc(outcome, step) ==
    IF outcome = "Exception" THEN Exc("Exception", "Exception", step)
    ELSE Exc("BaseException", "CancelledError", step)

Init ==
    /\ config \in [name : ConfigNames, tool_mappings_file : MappingsPaths]
    /\ mappings_file \in FileStates
    /\ tool_mappings = EmptyDict
    /\ openapi_spec = None
    /\ http_routes = None
    /\ base_url = None
    /\ api_client = None
    /\ route_maps = None
    /\ mcp_server = None
    /\ pc = "load_tool_mappings"
    /\ exc = None
    /\ result = None
    /\ started = <<>>
    /\ completed = <<>>
    /\ propagated = None
    /\ aclose_calls = 0
    /\ transforms = 0

\* a step of build returns normally: build goes on with the next statement
Returns(step) ==
    /\ pc' = StepAfter(step)
    /\ started' = Append(started, step)
    /\ completed' = Append(completed, step)
    /\ result' = IF StepAfter(step) = "returned" THEN mcp_server ELSE result
    /\ UNCHANGED <<exc, propagated, aclose_calls>>

\* a step of build raises: control goes to the except clause of build
Raises(step, e) ==
    /\ pc' = "except"
    /\ exc' = e
    /\ started' = Append(started, step)
    /\ UNCHANGED <<completed, result, propagated, aclose_calls>>

\* 1. self.tool_mappings = self._load_tool_mappings()
LoadToolMappings ==
    /\ pc = "load_tool_mappings"
    /\ LET r == LoadToolMappingsCall(config, mappings_file) IN
       IF r.ok
       THEN /\ tool_mappings' = r.value
            /\ Returns("load_tool_mappings")
       ELSE /\ tool_mappings' = tool_mappings
            /\ Raises("load_tool_mappings",
                      Exc("Exception", r.err, "load_tool_mappings"))
    /\ UNCHANGED <<config, mappings_file, openapi_spec, http_routes, base_url,
                   api_client, route_maps, mcp_server, transforms>>

\* 2. await self._load_openapi_spec()
LoadOpenAPISpec ==
    /\ pc = "load_openapi_spec"
    /\ \E outcome \in AwaitOutcomes :
         IF outcome = "ok"
         THEN \E spec \in OpenAPISpecs, routes \in RouteLists :
                /\ openapi_spec' = spec
                /\ http_routes' = PyList(routes)
                /\ Returns("load_openapi_spec")
         ELSE /\ UNCHANGED <<openapi_spec, http_routes>>
              /\ Raises("load_openapi_spec", OutcomeExc(outcome, "load_openapi_spec"))
    /\ UNCHANGED <<config, mappings_file, tool_mappings, base_url, api_client,
                   route_maps, mcp_server, transforms>>

\* 3. self._determine_base_url()
DetermineBaseUrl ==
    /\ pc = "determine_base_url"
    /\ LET r == DetermineBaseUrlCall(openapi_spec) IN
       IF r.ok
       THEN /\ base_url' = r.value
            /\ Returns("determine_base_url")
       ELSE /\ base_url' = base_url
            /\ Raises("determine_base_url",
                      Exc("Exception", r.err, "determine_base_url"))
    /\ UNCHANGED <<config, mappings_file, tool_mappings, openapi_spec, http_routes,
                   api_client, route_maps, mcp_server, transforms>>

\* 4. self._create_api_client()
CreateApiClient ==
    /\ pc = "create_api_client"
    /\ IF ~Truthy(base_url)
       THEN /\ api_client' = api_client
            /\ Raises("create_api_client",
                      Exc("Exception", "ValueError", "create_api_client"))
       ELSE \E outcome \in SyncOutcomes :   \* create_auth_handler
              IF outcome = "ok"
              THEN /\ api_client' = [type |-> "AsyncClient", base_url |-> base_url,
                                     is_closed |-> FALSE]
                   /\ Returns("create_api_client")
              ELSE /\ api_client' = api_client
                   /\ Raises("create_api_client",
                             OutcomeExc(outcome, "create_api_client"))
    /\ UNCHANGED <<config, mappings_file, tool_mappings, openapi_spec, http_routes,
                   base_url, route_maps, mcp_server, transforms>>

\* 6. mcp_server = self._create_mcp_server()
CreateMcpServer ==
    /\ pc = "create_mcp_server"
    /\ IF ~Truthy(openapi_spec) \/ ~Truthy(http_routes) \/ ~Truthy(api_client)
       THEN /\ UNCHANGED <<route_maps, mcp_server>>
            /\ Raises("create_mcp_server",
                      Exc("Exception", "ValueError", "create_mcp_server"))
       ELSE IF KeysRaises(config.name, tool_mappings)
       THEN /\ UNCHANGED <<route_maps, mcp_server>>
            /\ Raises("create_mcp_server",
                      Exc("Exception", "AttributeError", "create_mcp_server"))
       ELSE /\ route_maps' = PyList(BuildRouteMaps(config.name, tool_mappings,
                                                   http_routes.items))
            /\ \E outcome \in SyncOutcomes :   \* FastMCP.from_openapi
                 IF outcome = "ok"
                 THEN /\ mcp_server' = [type |-> "FastMCP", name |-> config.name,
                                        route_maps |-> route_maps']
                      /\ Returns("create_mcp_server")
                 ELSE /\ mcp_server' = mcp_server
                      /\ Raises("create_mcp_server",
                                OutcomeExc(outcome, "create_mcp_server"))
    /\ UNCHANGED <<config, mappings_file, tool_mappings, openapi_spec, http_routes,
                   base_url, api_client, transforms>>

\* 7. await self._transform_tools(mcp_server); return mcp_server
TransformTools ==
    /\ pc = "transform_tools"
    /\ IF ~Truthy(http_routes)
       THEN /\ transforms' = transforms
            /\ Raises("transform_tools",
                      Exc("Exception", "ValueError", "transform_tools"))
       ELSE /\ transforms' = transforms + 1
            /\ \E outcome \in AwaitOutcomes :   \* tool_transformer.transform_tools()
                 IF outcome = "ok"
                 THEN Returns("transform_tools")
                 ELSE Raises("transform_tools", OutcomeExc(outcome, "transform_tools"))
    /\ UNCHANGED <<config, mappings_file, tool_mappings, openapi_spec, http_routes,
                   base_url, api_client, route_maps, mcp_server>>

\* except Exception as e
HandlerCatches(e) == e.cls = "Exception"

HandlerNeverCloses(client) == FALSE

\* if self.api_client: await self.api_client.aclose()
HandlerCloses(client) == Truthy(client)

\* the except clause of build, or the exception passing it by; then build is left
ExceptHandler ==
    /\ pc = "except"
    /\ IF HandlerCatches(exc) /\ HandlerCloses(api_client)
       THEN /\ api_client' = [api_client EXCEPT !.is_closed = TRUE]
            /\ aclose_calls' = aclose_calls + 1
       ELSE UNCHANGED <<api_client, aclose_calls>>
    /\ propagated' = exc
    /\ pc' = "raised"
    /\ UNCHANGED <<config, mappings_file, tool_mappings, openapi_spec, http_routes,
                   base_url, route_maps, mcp_server, exc, result, started, completed,
                   transforms>>

\* cleanup(), called by the owner of the factory once build is over
Cleanup ==
    /\ pc \in {"returned", "raised"}
    /\ IF Truthy(api_client)
       THEN /\ api_client' = [api_client EXCEPT !.is_closed = TRUE]
            /\ aclose_calls' = aclose_calls + 1
       ELSE UNCHANGED <<api_client, aclose_calls>>
    /\ pc' = "cleaned"
    /\ UNCHANGED <<config, mappings_file, tool_mappings, openapi_spec, http_routes,
                   base_url, route_maps, mcp_server, exc, result, started, completed,
                   propagated, transforms>>

Next ==
    \/ LoadToolMappings
    \/ LoadOpenAPISpec
    \/ DetermineBaseUrl
    \/ CreateApiClient
    \/ CreateMcpServer
    \/ TransformTools
    \/ ExceptHandler
    \/ Cleanup

Spec == Init /\ [][Next]_vars

-----------------------------------------------------------------------------
(* Properties *)

RouteMapsBuilt == route_maps # None

\* the TOOL entry the claim describes for route r is at position j of the list
IsToolEntryFor(j, r) ==
    /\ route_maps.items[j].mcp_type = "TOOL"
    /\ route_maps.items[j].methods = <<r.method>>
    /\ route_maps.items[j].pattern = "^" \o r.path \o "$"

\* r.operation_id is a key of the loaded tool mappings
IsMappingKey(r) ==
    /\ tool_mappings.type = "dict"
    /\ r.operation_id.type = "str"
    /\ r.operation_id.v \in DOMAIN tool_mappings.d

\* C1: with config.name = "datainclusion", the route_maps list handed to the
\* framework holds a TOOL entry (methods = [r.method], pattern = ^r.path$) for a
\* loaded route r exactly when r.operation_id is a key of the tool mappings, and
\* every TOOL entry of the list belongs to such a route.
C1_ToolEntryIffMappingKey ==
    (RouteMapsBuilt /\ config.name = "datainclusion") =>
        /\ \A i \in 1..Len(http_routes.items) :
             (\E j \in 1..Len(route_maps.items) :
                 IsToolEntryFor(j, http_routes.items[i]))
                 <=> IsMappingKey(http_routes.items[i])
        /\ \A j \in 1..Len(route_maps.items) :
             route_maps.items[j].mcp_type = "TOOL" =>
                 \E i \in 1..Len(http_routes.items) :
                     /\ IsToolEntryFor(j, http_routes.items[i])
                     /\ IsMappingKey(http_routes.items[i])

\* a server was created from two routes, one mapped and one not
C1_Witness ==
    /\ mcp_server # None
    /\ config.name = "datainclusion"
    /\ Len(http_routes.items) = 2
    /\ IsMappingKey(http_routes.items[1])
    /\ ~IsMappingKey(http_routes.items[2])
    /\ Len(route_maps.items) = 2

BuildLeftByException == pc = "raised"

\* C2 as stated: whenever an exception leaves build it is the one the step raised,
\* no server was returned, a client that had been created is closed, and no close
\* was attempted when none had been created.
C2_AnyRaiseClosesClient ==
    BuildLeftByException =>
        /\ exc # None
        /\ propagated = exc
        /\ result = None
        /\ api_client # None => (api_client.is_closed /\ aclose_calls = 1)
        /\ api_client = None => aclose_calls = 0

\* C2 (amended): the exception that leaves build is the one the step raised and no
\* server is returned; when it is an instance of Exception a client that had been
\* created is closed (once) before build is left and no close is attempted when
\* none had been created; an exception outside the Exception hierarchy leaves
\* build without any close.
C2_ExceptionRaiseClosesClient ==
    BuildLeftByException =>
        /\ exc # None
        /\ propagated = exc
        /\ result = None
        /\ (exc.cls = "Exception" /\ api_client # None) =>
               (api_client.is_closed /\ aclose_calls = 1)
        /\ api_client = None => aclose_calls = 0
        /\ exc.cls # "Exception" => aclose_calls = 0

\* a step after the creation of the client failed and build was left
C2_Witness ==
    /\ BuildLeftByException
    /\ exc.cls = "Exception"
    /\ exc.step = "transform_tools"
    /\ api_client # None
    /\ api_client.is_closed

\* the three cases of C3
NoMappingsFileConfigured == ~Truthy(config.tool_mappings_file)
MappingsFileMissing ==
    Truthy(config.tool_mappings_file) /\ mappings_file.kind = "missing"
MappingsFileInvalidJSON ==
    Truthy(config.tool_mappings_file) /\ mappings_file.kind = "invalid_json"

C4_MappingsAlwaysDict ==
    /\ completed # <<>> => tool_mappings.type = "dict"
    /\ exc # None => exc.name # "AttributeError"

\* C5: the steps of build start in the fixed order, each only after all earlier
\* ones returned normally; tools are transformed at most once and only once the
\* server exists; a server is returned only after all six steps completed, tools
\* having been transformed exactly once.
C5_FixedStepOrder ==
    LET order == <<"load_tool_mappings", "load_openapi_spec", "determine_base_url",
                   "create_api_client", "create_mcp_server", "transform_tools">>
    IN  /\ Len(started) <= 6
        /\ \A i \in 1..Len(started) : started[i] = order[i]
        /\ Len(completed) <= Len(started)
        /\ Len(started) <= Len(completed) + 1
        /\ \A i \in 1..Len(completed) : completed[i] = started[i]
        /\ transforms <= 1
        /\ transforms = 1 =>
               (mcp_server # None /\ Len(completed) >= 5 /\ Len(started) = 6)
        /\ result # None =>
               (completed = order /\ transforms = 1 /\ result = mcp_server)
        /\ pc = "returned" => result # None

\* build returned the server
C5_Witness ==
    /\ pc = "returned"
    /\ result # None
    /\ transforms = 1
    /\ Len(completed) = 6

\* C6: route_maps is empty when config.name is not "datainclusion"; otherwise its
\* last element is the only EXCLUDE entry, everything before it is a TOOL entry,
\* and with empty tool mappings it is the EXCLUDE entry alone.
C6_ExcludeLast ==
    RouteMapsBuilt =>
        IF config.name # "datainclusion"
        THEN route_maps.items = <<>>
        ELSE LET n == Len(route_maps.items) IN
             /\ n >= 1
             /\ route_maps.items[n].mcp_type = "EXCLUDE"
             /\ route_maps.items[n].pattern = ".*"
             /\ \A j \in 1..(n - 1) : route_maps.items[j].mcp_type = "TOOL"
             /\ DOMAIN tool_mappings.d = {} => n = 1

\* a list with TOOL entries and the catch-all was built
C6_Witness ==
    /\ RouteMapsBuilt
    /\ config.name = "datainclusion"
    /\ Len(route_maps.items) = 3
    /\ route_maps.items[1].mcp_type = "TOOL"

====
